---- MODULE Spec2Model ----
(***************************************************************************)
(* Accordion (mantine-core): the open/close state engine reached through   *)
(* useAccordionState and the keyboard focus navigation over controlsRefs.  *)
(*                                                                         *)
(* Accordion.tsx is modelled from the source.  The hook useAccordionState  *)
(* lives in ./use-accordion-state/use-accordion-state, which is not part   *)
(* of the sources at hand: its toggle rule, its controlled / uncontrolled  *)
(* behaviour and its initial value are modelled from the specification.    *)
(***************************************************************************)
EXTENDS Integers, Sequences, FiniteSets

\* ---------------------------------------------------------------- bounds
\* Largest number of AccordionItem children a render passes in.
MaxItems == 3

\* ---------------------------------------------------------------- values
Indices == 0 .. (MaxItems - 1)
\* The DOM button of item index, the node its controlRef is called with on mount.
NodeOf(index) == index + 1
Nodes == {NodeOf(index) : index \in Indices}
\* A falsy array element: null (what a ref callback receives on unmount) or
\* undefined (an array hole, an index outside the array).  The component only
\* tests elements for truthiness and calls focus through ?., so the two are
\* one value here.
Null == 0
Undefined == Null
\* The "none" sentinel of single mode (the default of initialItem).
None == 0 - 1
Codes == {"ArrowDown", "ArrowUp", "Enter"}

VARIABLES
    multiple,      \* prop multiple, fixed for the lifetime of the instance
    controlled,    \* TRUE iff the prop state is supplied
    hasOnChange,   \* TRUE iff the prop onChange is supplied
    itemsCount,    \* items.length of the current render
    effectPending, \* the useDidUpdate effect of the current render has not run yet
    grew,          \* that render raised items.length (FALSE when no effect is pending)
    state,         \* the prop state (controlled mode): the set of open indices
    stored,        \* the state the engine holds (uncontrolled mode)
    controlsRefs,  \* controlsRefs.current, a JavaScript array (1-based here)
    event,         \* the event processed last
    notified,      \* the values onChange was called with during that event
    focusCalls,    \* the focus() calls made during that event
    prevented      \* event.preventDefault() was called during that event

vars == <<multiple, controlled, hasOnChange, itemsCount, effectPending, grew,
          state, stored, controlsRefs, event, notified, focusCalls, prevented>>

config == <<multiple, controlled, hasOnChange>>

\* ------------------------------------------------------- AccordionState
\* The states of the shape that `mult` fixes: any set of indices in multiple
\* mode, at most one open index in single mode.
States(mult) ==
    IF mult THEN SUBSET Indices
    ELSE {S \in SUBSET Indices : Cardinality(S) <= 1}

\* Single mode: the open index, or None.
SingleIndex(S) == IF S = {} THEN None ELSE CHOOSE i \in S : TRUE

\* opened={value[index]}
OpenedOffByOne(S, index) == (index + 1) \in S

Opened(S, index) == index \in S

\* The options object the component hands to useAccordionState on every render.
OptionsMultipleInverted ==
    [multiple |-> ~multiple, itemsCount |-> itemsCount, hasState |-> controlled,
     state |-> state, hasOnChange |-> hasOnChange]

OptionsWithoutMultiple ==
    [multiple |-> FALSE, itemsCount |-> itemsCount, hasState |-> controlled,
     state |-> state, hasOnChange |-> hasOnChange]

OptionsWithoutState ==
    [multiple |-> multiple, itemsCount |-> itemsCount, hasState |-> FALSE,
     state |-> {}, hasOnChange |-> hasOnChange]

OptionsStaleState ==
    [multiple |-> multiple, itemsCount |-> itemsCount, hasState |-> controlled,
     state |-> IF notified # <<>> THEN notified[1] ELSE state,
     hasOnChange |-> hasOnChange]

OptionsCountOffByOne ==
    [multiple |-> multiple, itemsCount |-> itemsCount + 1, hasState |-> controlled,
     state |-> state, hasOnChange |-> hasOnChange]

OptionsWithoutOnChange ==
    [multiple |-> multiple, itemsCount |-> itemsCount, hasState |-> controlled,
     state |-> state, hasOnChange |-> FALSE]

useAccordionStateOptions ==
    [multiple |-> multiple, itemsCount |-> itemsCount, hasState |-> controlled,
     state |-> state, hasOnChange |-> hasOnChange]

\* The toggle rule of the state engine.
ToggleRule(mult, S, i, count) ==
    IF i \notin 0 .. (count - 1) THEN S
    ELSE IF mult
         THEN (IF i \in S THEN S \ {i} ELSE S \cup {i})
         ELSE (IF S = {i} THEN {} ELSE {i})

\* The options of the first render that decide the state at construction.
ConstructionOptionsCountOffByOne(initItem, hasInitState, initState) ==
    [multiple |-> multiple, itemsCount |-> itemsCount + 1, initialItem |-> initItem,
     hasInitialState |-> hasInitState, initialState |-> initState]

ConstructionOptions(initItem, hasInitState, initState) ==
    [multiple |-> multiple, itemsCount |-> itemsCount, initialItem |-> initItem,
     hasInitialState |-> hasInitState, initialState |-> initState]

\* The state at construction.
InitialValue(mult, count, initItem, hasInitState, initState) ==
    IF hasInitState THEN initState
    ELSE IF mult THEN {}
    ELSE IF initItem \in 0 .. (count - 1) THEN {initItem}
    ELSE {}

\* The state every read of the engine returns.
ReadValue(opts, internal) ==
    IF opts.hasState THEN opts.state ELSE internal

\* const [value, handlers] = useAccordionState({...})
value == ReadValue(useAccordionStateOptions, stored)

\* const controls = items.map((item, index) => <AccordionItem opened={value[index]} .../>):
\* what the current render hands to each item.
controls ==
    [index \in 0 .. (itemsCount - 1) |-> [opened |-> Opened(value, index)]]

\* ------------------------------------------------------------ the array
\* controlsRefs.current[k]
Lookup(arr, k) ==
    IF k \in 0 .. (Len(arr) - 1) THEN arr[k + 1] ELSE Undefined

\* A truthy array element: a DOM node, neither null nor undefined.
IsHandle(x) == x \in Nodes

\* controlsRefs.current[index] = node
ArraySetPush(arr, index, node) == Append(arr, node)

ArraySet(arr, index, node) ==
    IF index < Len(arr)
    THEN [arr EXCEPT ![index + 1] = node]
    ELSE [k \in 1 .. (index + 1) |->
            IF k <= Len(arr) THEN arr[k]
            ELSE IF k = index + 1 THEN node ELSE Undefined]

\* controlsRefs.current.slice(0, n)
SliceOffByOne(arr, n) ==
    [k \in 1 .. (IF n + 1 < Len(arr) THEN n + 1 ELSE Len(arr)) |-> arr[k]]

Slice(arr, n) ==
    [k \in 1 .. (IF n < Len(arr) THEN n ELSE Len(arr)) |-> arr[k]]

\* The focus() calls of an ArrowDown on item index (lines 93-98): each call is
\* recorded with the position the node was read from.
NextTargetNoWrap(arr, index) ==
    IF IsHandle(Lookup(arr, index + 1))
    THEN <<[index |-> index + 1, node |-> Lookup(arr, index + 1)]>>
    ELSE <<>>

NextTarget(arr, index) ==
    IF IsHandle(Lookup(arr, index + 1))
    THEN <<[index |-> index + 1, node |-> Lookup(arr, index + 1)]>>
    ELSE IF IsHandle(Lookup(arr, 0))
         THEN <<[index |-> 0, node |-> Lookup(arr, 0)]>>
         ELSE <<>>

\* The focus() calls of an ArrowUp on item index (lines 103-108).
PreviousTarget(arr, index) ==
    IF IsHandle(Lookup(arr, index - 1))
    THEN <<[index |-> index - 1, node |-> Lookup(arr, index - 1)]>>
    ELSE IF IsHandle(Lookup(arr, Len(arr) - 1))
         THEN <<[index |-> Len(arr) - 1, node |-> Lookup(arr, Len(arr) - 1)]>>
         ELSE <<>>

\* ----------------------------------------------------------------- Init
\* The record of the event processed last.  before is the part of the state
\* the event started from that the event is about: the state read (toggle),
\* the positions that held a handle (didUpdate), the node handed in, if any
\* (controlRef); again says that a toggle follows a toggle of the same index
\* directly, and that the render a didUpdate belongs to raised items.length.
Ev(op, index, code, before, again) ==
    [op |-> op, index |-> index, code |-> code, before |-> before, again |-> again]

\* The positions of the array that hold a handle.
Recorded(arr) == {j \in 0 .. (Len(arr) - 1) : IsHandle(Lookup(arr, j))}

Init ==
    /\ multiple \in BOOLEAN
    /\ controlled \in BOOLEAN
    /\ hasOnChange \in BOOLEAN
    /\ controlled => hasOnChange
    /\ itemsCount \in 0 .. MaxItems
    /\ effectPending = FALSE
    /\ grew = FALSE
    /\ \E initItem \in None .. MaxItems, hasInitState \in BOOLEAN,
          initState \in States(multiple) :
          /\ ~hasInitState => initState = {}
          /\ stored = IF controlled THEN {}
                      ELSE LET o == ConstructionOptions(initItem, hasInitState, initState)
                           IN InitialValue(o.multiple, o.itemsCount, o.initialItem,
                                           o.hasInitialState, o.initialState)
          /\ event = Ev("init", initItem, "", initState, hasInitState)
    /\ state \in IF controlled THEN States(multiple) ELSE {{}}
    /\ controlsRefs = <<>>
    /\ notified = <<>>
    /\ focusCalls = <<>>
    /\ prevented = FALSE

\* -------------------------------------------------------------- actions
\* handlers.toggle(index) of the hook called with the options opts.
toggle(opts, index) ==
    LET next == ToggleRule(opts.multiple, ReadValue(opts, stored), index,
                           opts.itemsCount) IN
    /\ stored' = IF opts.hasState THEN stored ELSE next
    /\ notified' = IF opts.hasOnChange THEN <<next>> ELSE <<>>

\* onToggle={() => handlers.toggle(index)} of a rendered item.
onToggleFirstItem(index) ==
    /\ index \in 0 .. (itemsCount - 1)
    /\ toggle(useAccordionStateOptions, 0)
    /\ event' = Ev("toggle", index, "", value,
                   event.op = "toggle" /\ event.index = index)
    /\ focusCalls' = <<>>
    /\ prevented' = FALSE
    /\ UNCHANGED <<config, itemsCount, effectPending, grew, state, controlsRefs>>

onToggle(index) ==
    /\ index \in 0 .. (itemsCount - 1)
    /\ toggle(useAccordionStateOptions, index)
    /\ event' = Ev("toggle", index, "", value,
                   event.op = "toggle" /\ event.index = index)
    /\ focusCalls' = <<>>
    /\ prevented' = FALSE
    /\ UNCHANGED <<config, itemsCount, effectPending, grew, state, controlsRefs>>

\* The body of handleItemKeydown(event, index) (lines 90-110): it reads index
\* and the array as they are and tests neither against items.length.
KeydownPreventsOnFocus(code, index) ==
    /\ focusCalls' = (IF code = "ArrowDown" THEN NextTarget(controlsRefs, index) ELSE <<>>)
                     \o (IF code = "ArrowUp" THEN PreviousTarget(controlsRefs, index) ELSE <<>>)
    /\ prevented' = (focusCalls' # <<>>)
    /\ event' = Ev("keydown", index, code, {}, FALSE)
    /\ notified' = <<>>
    /\ UNCHANGED <<config, itemsCount, effectPending, grew, state, stored,
                   controlsRefs>>

KeydownFocusesOpenOnly(code, index) ==
    /\ focusCalls' = SelectSeq(
            (IF code = "ArrowDown" THEN NextTarget(controlsRefs, index) ELSE <<>>)
            \o (IF code = "ArrowUp" THEN PreviousTarget(controlsRefs, index) ELSE <<>>),
            LAMBDA f : Opened(value, f.index))
    /\ prevented' = (code = "ArrowDown" \/ code = "ArrowUp")
    /\ event' = Ev("keydown", index, code, {}, FALSE)
    /\ notified' = <<>>
    /\ UNCHANGED <<config, itemsCount, effectPending, grew, state, stored,
                   controlsRefs>>

handleItemKeydownCall(code, index) ==
    /\ focusCalls' = (IF code = "ArrowDown" THEN NextTarget(controlsRefs, index) ELSE <<>>)
                     \o (IF code = "ArrowUp" THEN PreviousTarget(controlsRefs, index) ELSE <<>>)
    /\ prevented' = (code = "ArrowDown" \/ code = "ArrowUp")
    /\ event' = Ev("keydown", index, code, {}, FALSE)
    /\ notified' = <<>>
    /\ UNCHANGED <<config, itemsCount, effectPending, grew, state, stored,
                   controlsRefs>>

\* onKeyDown={(event) => handleItemKeydown(event, index)} of a rendered item.
handleItemKeydown(code, index) ==
    /\ index \in 0 .. (itemsCount - 1)
    /\ handleItemKeydownCall(code, index)

\* controlRef={(node) => { controlsRefs.current[index] = node; }} of item index,
\* called with the node when the control mounts and with null when it unmounts.
\* The closures of the current render cover the rendered items; the closure of
\* an item that the current render removed is called once more, with null, to
\* detach the node it attached, before the effects of that render run.
controlRef(index, node) ==
    /\ \/ index \in 0 .. (itemsCount - 1)
       \/ /\ effectPending
          /\ index >= itemsCount
          /\ IsHandle(Lookup(controlsRefs, index))
          /\ node = Null
    /\ controlsRefs' = ArraySet(controlsRefs, index, node)
    /\ event' = Ev("controlRef", index, "", {node} \ {Null}, FALSE)
    /\ notified' = <<>>
    /\ focusCalls' = <<>>
    /\ prevented' = FALSE
    /\ UNCHANGED <<config, itemsCount, effectPending, grew, state, stored>>

\* useDidUpdate(() => { controlsRefs.current = controlsRefs.current.slice(0, items.length) },
\*              [items.length]): runs after a render whose items.length differs
\* from that of the render before, never after the first render.
DidUpdate ==
    /\ effectPending
    /\ controlsRefs' = Slice(controlsRefs, itemsCount)
    /\ effectPending' = FALSE
    /\ grew' = FALSE
    /\ event' = Ev("didUpdate", itemsCount, "", Recorded(controlsRefs), grew)
    /\ notified' = <<>>
    /\ focusCalls' = <<>>
    /\ prevented' = FALSE
    /\ UNCHANGED <<config, itemsCount, state, stored>>

\* A render of the component with n items.  The effects of a render run
\* before the next render starts.
Render(n) ==
    /\ ~effectPending
    /\ itemsCount' = n
    /\ effectPending' = (n # itemsCount)
    /\ grew' = (n > itemsCount)
    /\ event' = Ev("render", n, "", {}, FALSE)
    /\ notified' = <<>>
    /\ focusCalls' = <<>>
    /\ prevented' = FALSE
    /\ UNCHANGED <<config, state, stored, controlsRefs>>

\* Controlled mode: a render in which the caller supplies the state s.
RenderState(s) ==
    /\ ~effectPending
    /\ controlled
    /\ s \in States(multiple)
    /\ state' = s
    /\ event' = Ev("render", itemsCount, "", {}, FALSE)
    /\ notified' = <<>>
    /\ focusCalls' = <<>>
    /\ prevented' = FALSE
    /\ UNCHANGED <<config, itemsCount, effectPending, grew, stored, controlsRefs>>

Next ==
    \/ \E index \in Indices : onToggle(index)
    \/ \E index \in Indices, code \in Codes : handleItemKeydown(code, index)
    \/ \E index \in Indices : \E node \in {NodeOf(index), Null} : controlRef(index, node)
    \/ DidUpdate
    \/ \E n \in 0 .. MaxItems : Render(n)
    \/ \E s \in SUBSET Indices : RenderState(s)

Spec == Init /\ [][Next]_vars

\* ------------------------------------------------ requests of any index
\* The indices a request can name: the rendered ones, and the ones on either
\* side of them.
Requests == None .. MaxItems

\* handlers.toggle(index) called with any index, as a caller of the hook can.
handlersToggle(index) ==
    /\ toggle(useAccordionStateOptions, index)
    /\ event' = Ev("toggle", index, "", value,
                   event.op = "toggle" /\ event.index = index)
    /\ focusCalls' = <<>>
    /\ prevented' = FALSE
    /\ UNCHANGED <<config, itemsCount, effectPending, grew, state, controlsRefs>>

\* The state engine under requests of any index.
NextEngine ==
    \/ \E index \in Requests : handlersToggle(index)
    \/ DidUpdate
    \/ \E n \in 0 .. MaxItems : Render(n)
    \/ \E s \in SUBSET Indices : RenderState(s)

SpecEngine == Init /\ [][NextEngine]_vars

\* The focus navigation under requests of any index.
NextNavigator ==
    \/ \E index \in Requests, code \in Codes : handleItemKeydownCall(code, index)
    \/ \E index \in Indices : \E node \in {NodeOf(index), Null} : controlRef(index, node)
    \/ DidUpdate
    \/ \E n \in 0 .. MaxItems : Render(n)

SpecNavigator == Init /\ [][NextNavigator]_vars

\* ------------------------------------------------------------ properties
\* The toggle rule as the specification words it, for an in-range index.
ExpectedToggle(mult, S, i) ==
    IF mult THEN (S \ {i}) \cup ({i} \ S)
    ELSE IF SingleIndex(S) = i THEN {} ELSE {i}

\* What a toggle results in: the state stored (uncontrolled), the state handed
\* to onChange (controlled).
ToggleResult == IF controlled THEN notified[1] ELSE stored

\* The greatest position that holds a handle.
LastRecorded(arr) == CHOOSE j \in Recorded(arr) : \A k \in Recorded(arr) : k <= j

Focus(arr, j) == <<[index |-> j, node |-> Lookup(arr, j)]>>

\* C1: in single mode the state read, and every state handed to onChange,
\* holds at most one open index in every reachable state.
SingleAtMostOneOpen ==
    ~multiple =>
        /\ Cardinality(value) <= 1
        /\ \A k \in 1 .. Len(notified) : Cardinality(notified[k]) <= 1

\* A toggle of a closed index has replaced the index that was open.
SingleReplacedOpenIndex ==
    /\ ~multiple /\ ~controlled
    /\ event.op = "toggle"
    /\ event.before # {}
    /\ stored # {}
    /\ stored # event.before

\* C2: in single mode toggle(i) of the open index results in None, and
\* toggle(i) of any other in-range index results in exactly i.
SingleToggleResult ==
    (event.op = "toggle" /\ ~multiple) =>
        /\ Cardinality(ToggleResult) <= 1
        /\ SingleIndex(ToggleResult) =
              (IF SingleIndex(event.before) = event.index THEN None ELSE event.index)

\* 3 items: Toggle(2) from the state None results in 2.
SingleScenarioEnd ==
    /\ ~multiple /\ ~controlled
    /\ itemsCount = 3
    /\ event.op = "toggle" /\ event.index = 2
    /\ SingleIndex(event.before) = None
    /\ SingleIndex(stored) = 2

\* C3: in multiple mode a toggle(i) that directly follows a toggle(i) takes the
\* state read back to what it was before the first of the two.
MultipleToggleTwice ==
    [][(/\ multiple
        /\ event.op = "toggle"
        /\ event'.op = "toggle"
        /\ event'.index = event.index
        /\ event'.again)
       => value' = event.before]_vars

ToggledTwice ==
    /\ multiple /\ ~controlled
    /\ event.op = "toggle" /\ event.again
    /\ event.index \notin stored
    /\ Cardinality(stored) >= 2

\* C4: in multiple mode toggle(i) flips the membership of i and leaves the
\* membership of every other index as it was.
MultipleToggleFlipsOnlyTarget ==
    (event.op = "toggle" /\ multiple) =>
        /\ (event.index \in ToggleResult) <=> (event.index \notin event.before)
        /\ \A j \in Indices \ {event.index} :
              (j \in ToggleResult) <=> (j \in event.before)

\* 3 items: Toggle(0) from {0, 2} results in {2}.
MultipleScenarioEnd ==
    /\ multiple /\ ~controlled
    /\ itemsCount = 3
    /\ event.op = "toggle" /\ event.index = 0
    /\ event.before = {0, 2}
    /\ stored = {2}

\* C5: in controlled mode the state read is the state the caller supplies, and
\* a toggle leaves the state read and every opened flag as they were.
ControlledEcho ==
    controlled =>
        /\ value = state
        /\ event.op = "toggle" =>
              /\ value = event.before
              /\ \A j \in Indices : Opened(value, j) = Opened(event.before, j)

ControlledToggledWithoutFeedback ==
    /\ controlled
    /\ event.op = "toggle" /\ event.again
    /\ notified # <<>>
    /\ notified[1] # state

\* C6: in controlled mode every toggle(i) calls onChange exactly once, with the
\* toggle rule applied to the state the caller supplies at that time.
ControlledNotifiesFromExternal ==
    (controlled /\ event.op = "toggle") =>
        /\ Len(notified) = 1
        /\ notified[1] = ExpectedToggle(multiple, state, event.index)

ControlledNotifiedSameTwice ==
    /\ controlled /\ multiple
    /\ event.op = "toggle" /\ event.again
    /\ state # {}
    /\ event.index \in state
    /\ notified = <<state \ {event.index}>>

\* C7: in uncontrolled mode toggle(i) stores the toggle rule applied to the
\* state held, and calls onChange, when supplied, exactly once with the state
\* it stored; without onChange it stores the same state and notifies nobody.
UncontrolledStoresAndNotifies ==
    (~controlled /\ event.op = "toggle") =>
        /\ stored = ExpectedToggle(multiple, event.before, event.index)
        /\ value = stored
        /\ notified = IF hasOnChange THEN <<stored>> ELSE <<>>

UncontrolledNotified ==
    /\ ~controlled /\ hasOnChange
    /\ event.op = "toggle"
    /\ stored # {}
    /\ notified = <<stored>>

\* C8: ArrowDown on item i focuses the handle at i + 1 when one is recorded,
\* otherwise the handle at 0 when one is recorded, otherwise nothing; from the
\* last recorded index it focuses handle 0.
MoveNextFocus ==
    (event.op = "keydown" /\ event.code = "ArrowDown") =>
        LET i == event.index IN
        /\ IsHandle(Lookup(controlsRefs, i + 1)) =>
              focusCalls = Focus(controlsRefs, i + 1)
        /\ (~IsHandle(Lookup(controlsRefs, i + 1)) /\ IsHandle(Lookup(controlsRefs, 0))) =>
              focusCalls = Focus(controlsRefs, 0)
        /\ (~IsHandle(Lookup(controlsRefs, i + 1)) /\ ~IsHandle(Lookup(controlsRefs, 0))) =>
              focusCalls = <<>>
        /\ Recorded(controlsRefs) = {} => focusCalls = <<>>
        /\ (0 \in Recorded(controlsRefs) /\ i = LastRecorded(controlsRefs)) =>
              focusCalls = Focus(controlsRefs, 0)

MoveNextWrapped ==
    /\ event.op = "keydown" /\ event.code = "ArrowDown"
    /\ Len(controlsRefs) >= 2
    /\ Recorded(controlsRefs) = 0 .. (Len(controlsRefs) - 1)
    /\ event.index = Len(controlsRefs) - 1
    /\ focusCalls = <<[index |-> 0, node |-> NodeOf(0)]>>

\* C9: ArrowUp on item i focuses the handle at i - 1 when one is recorded,
\* otherwise the recorded handle of the greatest index, and nothing only when
\* no handle is recorded.
MovePreviousFocusesLastRecorded ==
    (event.op = "keydown" /\ event.code = "ArrowUp") =>
        LET i == event.index IN
        IF IsHandle(Lookup(controlsRefs, i - 1))
        THEN focusCalls = Focus(controlsRefs, i - 1)
        ELSE IF Recorded(controlsRefs) # {}
             THEN focusCalls = Focus(controlsRefs, LastRecorded(controlsRefs))
             ELSE focusCalls = <<>>

\* C10: the truncation to n leaves no handle at an index >= n and leaves the
\* entries below n as they were; an index without a handle stays without one
\* in every step that is not a controlRef call for that index.
TruncateDropsStale ==
    [][/\ event'.op = "didUpdate" =>
            \A j \in 0 .. MaxItems :
                /\ j >= itemsCount' => ~IsHandle(Lookup(controlsRefs', j))
                /\ j < itemsCount' => Lookup(controlsRefs', j) = Lookup(controlsRefs, j)
       /\ \A j \in 0 .. MaxItems :
            (/\ ~IsHandle(Lookup(controlsRefs, j))
             /\ ~(event'.op = "controlRef" /\ event'.index = j))
            => ~IsHandle(Lookup(controlsRefs', j))]_vars

TruncatedStaleHandle ==
    /\ event.op = "didUpdate"
    /\ \E j \in event.before : j >= itemsCount
    /\ \E j \in event.before : j < itemsCount
    /\ Recorded(controlsRefs) = {j \in event.before : j < itemsCount}

\* C11: no step takes the component from a state in which neither the state
\* the engine holds nor the handle table references an index >= itemsCount to
\* a state in which one of them does.
NoStaleReference ==
    /\ \A i \in stored : i < itemsCount
    /\ \A j \in Recorded(controlsRefs) : j < itemsCount

IndicesStayWithinItemsCount ==
    [][NoStaleReference => NoStaleReference']_vars

\* C12: toggle(i) with i outside [0, itemsCount) leaves the state as it was, in
\* single and in multiple mode, and calls onChange, when supplied, with the
\* state as it was.
OutOfRangeToggleNoOp ==
    (event.op = "toggle" /\ event.index \notin 0 .. (itemsCount - 1)) =>
        /\ value = event.before
        /\ ~controlled => stored = event.before
        /\ notified = IF hasOnChange THEN <<event.before>> ELSE <<>>

OutOfRangeToggled ==
    /\ event.op = "toggle"
    /\ event.index = itemsCount
    /\ ~controlled /\ hasOnChange /\ multiple
    /\ stored # {}
    /\ notified = <<stored>>

InitialStateRule ==
    (event.op = "init" /\ ~controlled) =>
        /\ event.again => stored = event.before
        /\ (~event.again /\ multiple) => stored = {}
        /\ (~event.again /\ ~multiple) =>
              /\ Cardinality(stored) <= 1
              /\ SingleIndex(stored) =
                    (IF event.index >= 0 /\ event.index < itemsCount
                     THEN event.index ELSE None)

InitialItemOpened ==
    /\ event.op = "init"
    /\ ~controlled /\ ~multiple /\ ~event.again
    /\ itemsCount = 3
    /\ event.index = 1
    /\ SingleIndex(stored) = 1

SparseFallsThrough ==
    (event.op = "keydown") =>
        LET i == event.index IN
        /\ (/\ event.code = "ArrowDown"
            /\ ~IsHandle(Lookup(controlsRefs, i + 1))
            /\ IsHandle(Lookup(controlsRefs, i + 2))
            /\ IsHandle(Lookup(controlsRefs, 0)))
           => focusCalls = Focus(controlsRefs, 0)
        /\ (/\ event.code = "ArrowUp"
            /\ ~IsHandle(Lookup(controlsRefs, i - 1))
            /\ IsHandle(Lookup(controlsRefs, i - 2)))
           => focusCalls = Focus(controlsRefs, LastRecorded(controlsRefs))

\* The ArrowDown half of C16 on its own.
SparseNextFallsThrough ==
    (/\ event.op = "keydown" /\ event.code = "ArrowDown"
     /\ ~IsHandle(Lookup(controlsRefs, event.index + 1))
     /\ IsHandle(Lookup(controlsRefs, event.index + 2))
     /\ IsHandle(Lookup(controlsRefs, 0)))
    => focusCalls = Focus(controlsRefs, 0)

\* C17: the opened flag handed to item i is true iff i is open in the state
\* read (a member in multiple mode, the open index in single mode), and in
\* single mode at most one item is handed opened = true.
IsOpen(S, i) == IF multiple THEN i \in S ELSE SingleIndex(S) = i

OpenedFlagsMatchState ==
    /\ \A i \in DOMAIN controls : controls[i].opened <=> IsOpen(value, i)
    /\ ~multiple => Cardinality({i \in DOMAIN controls : controls[i].opened}) <= 1

OneItemRenderedOpen ==
    /\ ~multiple
    /\ itemsCount = 3
    /\ event.op = "toggle"
    /\ SingleIndex(value) = 1
    /\ controls[1].opened
    /\ ~controls[0].opened
    /\ ~controls[2].opened

\* C18: a keydown, a controlRef call and the truncation leave the state as it
\* was and call onChange with nothing; a toggle leaves the handle table as it
\* was and calls focus on nothing; what a keydown focuses is decided by the
\* key, the index and the handle table.
MoveResult(code, i, arr) ==
    IF code = "ArrowDown"
    THEN (IF IsHandle(Lookup(arr, i + 1)) THEN Focus(arr, i + 1)
          ELSE IF IsHandle(Lookup(arr, 0)) THEN Focus(arr, 0)
          ELSE <<>>)
    ELSE IF code = "ArrowUp"
    THEN (IF IsHandle(Lookup(arr, i - 1)) THEN Focus(arr, i - 1)
          ELSE IF IsHandle(Lookup(arr, Len(arr) - 1)) THEN Focus(arr, Len(arr) - 1)
          ELSE <<>>)
    ELSE <<>>

FocusAndStateIndependent ==
    [][/\ event'.op \in {"keydown", "controlRef", "didUpdate"} =>
            /\ value' = value
            /\ stored' = stored
            /\ state' = state
            /\ notified' = <<>>
       /\ event'.op = "toggle" =>
            /\ controlsRefs' = controlsRefs
            /\ focusCalls' = <<>>
       /\ event'.op = "keydown" =>
            focusCalls' = MoveResult(event'.code, event'.index, controlsRefs)]_vars

FocusedClosedItem ==
    /\ event.op = "keydown"
    /\ ~controlled
    /\ stored # {}
    /\ focusCalls # <<>>
    /\ ~Opened(value, focusCalls[1].index)

\* C19: a keydown calls focus at most once; it prevents the default action iff
\* the key is ArrowDown or ArrowUp, whether or not a handle was focused; with
\* any other key it focuses nothing and leaves the handle table and the state
\* as they were.
KeydownEffects ==
    [][event'.op = "keydown" =>
            /\ Len(focusCalls') <= 1
            /\ prevented' <=> (event'.code \in {"ArrowDown", "ArrowUp"})
            /\ event'.code \notin {"ArrowDown", "ArrowUp"} =>
                  /\ focusCalls' = <<>>
                  /\ controlsRefs' = controlsRefs
                  /\ value' = value]_vars

PreventedWithoutFocus ==
    /\ event.op = "keydown"
    /\ event.code = "ArrowUp"
    /\ focusCalls = <<>>
    /\ prevented

\* C20: a controlRef call sets the entry at its index to the node handed in,
\* or to no handle when handed null, and leaves every other entry as it was;
\* the truncation runs only while the effect of a render that changed
\* items.length is pending, which no state at construction is; and the
\* truncation after a render that raised items.length removes nothing.
RegisterAndTruncateFrame ==
    [][/\ event'.op = "controlRef" =>
            /\ \A j \in 0 .. MaxItems :
                  j # event'.index =>
                      Lookup(controlsRefs', j) = Lookup(controlsRefs, j)
            /\ event'.before = {} => ~IsHandle(Lookup(controlsRefs', event'.index))
            /\ \A n \in event'.before : Lookup(controlsRefs', event'.index) = n
       /\ event.op = "init" => ~effectPending
       /\ event'.op = "render" => (effectPending' <=> itemsCount' # itemsCount)
       /\ event'.op \notin {"render", "didUpdate"} => effectPending' = effectPending
       /\ event'.op = "didUpdate" => effectPending /\ ~effectPending'
       /\ (event'.op = "didUpdate" /\ grew) => controlsRefs' = controlsRefs]_vars

TruncatedAfterGrowth ==
    /\ event.op = "didUpdate"
    /\ event.again
    /\ event.before # {}
    /\ Recorded(controlsRefs) = event.before

====
